---- MODULE Spec2Model ----
(***************************************************************************)
(* A model of src/main.py, the password strength meter.                    *)
(*                                                                         *)
(* A password is a finite sequence of characters; a character is its code  *)
(* point (Python's ord), restricted here to Latin-1 (0..255).              *)
(*                                                                         *)
(* Python floats are modelled as the real numbers they approximate, kept   *)
(* exactly: an entropy log2(A) * n is the pair [base |-> A, exp |-> n], so *)
(* 2 ** entropy is the integer A^n, held as an arbitrary-precision natural *)
(* (a sequence of limbs).  The one place where the width of a float        *)
(* matters is kept: 2 ** x raises OverflowError when the result does not   *)
(* fit a double, i.e. when x >= 1024.                                      *)
(***************************************************************************)
EXTENDS Integers, Sequences, FiniteSets, TLC

VARIABLES
    password,           \* the text input's value
    password_visible,   \* the "Show password" checkbox
    score,              \* main's locals, Unset until assigned
    entropy,
    char_distribution,
    patterns,
    crack_time,
    color,
    label,
    warning,            \* the zxcvbn warning shown by st.warning
    suggestions,
    status,             \* how the last run of main ended
    raised,             \* the exception that ended it, "" if none
    result,             \* what zxcvbn.zxcvbn returned to the last run
    given,              \* the locals handed in as arguments, not computed
    first_eval          \* history: the first evaluation of a password

vars == <<password, password_visible, score, entropy, char_distribution,
          patterns, crack_time, color, label, warning, suggestions, status,
          raised, result, given, first_eval>>

\* A local that has not been assigned is the empty tuple, an assigned one the
\* one-element tuple of its value.
Unset == <<>>
Some(v) == <<v>>
IsSet(x) == x # Unset
Val(x) == x[1]

(***************************************************************************)
(* Characters and the membership sets of Python's string module.          *)
(***************************************************************************)
ascii_lowercase == 97 .. 122
ascii_uppercase == 65 .. 90
digits == 48 .. 57
punctuation == (33 .. 47) \cup (58 .. 64) \cup (91 .. 96) \cup (123 .. 126)
ascii_letters == ascii_lowercase \cup ascii_uppercase

\* str.lower() on one character (Latin-1): A-Z and the accented capitals.
LowerChar(c) ==
    IF c \in ascii_uppercase \/ (c \in 192 .. 222 /\ c # 215) THEN c + 32 ELSE c

\* str.lower()
Lower(s) == [i \in 1 .. Len(s) |-> LowerChar(s[i])]

\* Python's  needle in hay  for strings
Contains(hay, needle) ==
    \E k \in 0 .. (Len(hay) - Len(needle)) :
        \A j \in 1 .. Len(needle) : hay[k + j] = needle[j]

\* sum(1 for c in s if c in set): one for each position that passes
CountIn(s, set) == Cardinality({i \in 1 .. Len(s) : s[i] \in set})

\* sum(1 for c in s if c not in set)
CountNotIn(s, set) == Cardinality({i \in 1 .. Len(s) : s[i] \notin set})

\* any(c in set for c in s)
AnyIn(s, set) == \E i \in 1 .. Len(s) : s[i] \in set

(***************************************************************************)
(* Numbers.  TLC's integers are 32 bits wide, the floats of                *)
(* calculate_crack_time are not: exact naturals are little-endian          *)
(* sequences of limbs in base 10^4 with no leading zero limb (zero is      *)
(* <<>>).                                                                  *)
(***************************************************************************)
LimbBase == 10 ^ 4

RECURSIVE BigFromInt(_)
BigFromInt(n) ==
    IF n = 0 THEN <<>> ELSE <<n % LimbBase>> \o BigFromInt(n \div LimbBase)

RECURSIVE BigMulSmall(_, _, _)
BigMulSmall(x, k, carry) ==
    IF x = <<>> THEN BigFromInt(carry)
    ELSE LET t == Head(x) * k + carry
         IN  <<t % LimbBase>> \o BigMulSmall(Tail(x), k, t \div LimbBase)

RECURSIVE BigAdd(_, _, _)
BigAdd(x, y, carry) ==
    IF x = <<>> /\ y = <<>> THEN BigFromInt(carry)
    ELSE LET a == IF x = <<>> THEN 0 ELSE Head(x)
             b == IF y = <<>> THEN 0 ELSE Head(y)
             t == a + b + carry
         IN  <<t % LimbBase>>
             \o BigAdd(IF x = <<>> THEN <<>> ELSE Tail(x),
                       IF y = <<>> THEN <<>> ELSE Tail(y), t \div LimbBase)

BigShift(x) == IF x = <<>> THEN <<>> ELSE <<0>> \o x

RECURSIVE BigMul(_, _)
BigMul(x, y) ==
    IF x = <<>> \/ y = <<>> THEN <<>>
    ELSE BigAdd(IF Head(y) = 0 THEN <<>> ELSE BigMulSmall(x, Head(y), 0),
                BigShift(BigMul(x, Tail(y))), 0)

\* x < y
BigLess(x, y) ==
    \/ Len(x) < Len(y)
    \/ /\ Len(x) = Len(y)
       /\ \E i \in 1 .. Len(x) :
              /\ x[i] < y[i]
              /\ \A j \in (i + 1) .. Len(x) : x[j] = y[j]

\* base ^ n when that is below cap, and otherwise some number >= cap: the
\* product stops growing once it has passed cap (base >= 2).
RECURSIVE PowCapped(_, _, _, _)
PowCapped(acc, base, n, cap) ==
    IF n = 0 \/ ~BigLess(acc, cap) THEN acc
    ELSE PowCapped(BigMul(acc, base), base, n - 1, cap)

(***************************************************************************)
(* analyze_entropy.  The float math.log2(A) * n is kept as the pair        *)
(* [base |-> A, exp |-> n], the real number n * log2(A), with A an exact   *)
(* natural; the int 0 returned for the empty password is 0 * log2(1).      *)
(***************************************************************************)
Bits(b, n) == [base |-> b, exp |-> n]
ZeroBits == Bits(<<1>>, 0)

\* len(string.punctuation)
PunctuationSize == Cardinality(punctuation)

\* analyze_entropy with elif for the second to fourth if: only the first
\* class present counts
analyze_entropy_elif(pw) ==
    IF pw = <<>> THEN ZeroBits
    ELSE LET char_set_size ==
                 IF AnyIn(pw, ascii_lowercase) THEN 26
                 ELSE IF AnyIn(pw, ascii_uppercase) THEN 26
                 ELSE IF AnyIn(pw, digits) THEN 10
                 ELSE IF AnyIn(pw, punctuation) THEN PunctuationSize
                 ELSE 10
         IN  Bits(BigFromInt(char_set_size), Len(pw))

analyze_entropy(pw) ==
    IF pw = <<>> THEN ZeroBits
    ELSE LET s1 == IF AnyIn(pw, ascii_lowercase) THEN 26 ELSE 0
             s2 == s1 + (IF AnyIn(pw, ascii_uppercase) THEN 26 ELSE 0)
             s3 == s2 + (IF AnyIn(pw, digits) THEN 10 ELSE 0)
             s4 == s3 + (IF AnyIn(pw, punctuation) THEN PunctuationSize ELSE 0)
             char_set_size == IF s4 = 0 THEN 10 ELSE s4
         IN  Bits(BigFromInt(char_set_size), Len(pw))

\* math.log2(x) in units of 10^-5 bit, rounded down, for the arguments that
\* occur: log2(1), the eleven values of char_set_size, and the sample
\* arguments that put seconds on or just below a threshold.
math_log2(x) ==
    CASE x = <<1>> -> 0
      [] x = <<10>> -> 332192                                \* 10
      [] x = <<26>> -> 470043                                \* 26
      [] x = <<32>> -> 500000                                \* 32
      [] x = <<36>> -> 516992                                \* 36
      [] x = <<42>> -> 539231                                \* 42
      [] x = <<52>> -> 570043                                \* 52
      [] x = <<58>> -> 585798                                \* 58
      [] x = <<62>> -> 595419                                \* 62
      [] x = <<68>> -> 608746                                \* 68
      [] x = <<84>> -> 639231                                \* 84
      [] x = <<94>> -> 655458                                \* 94
      [] x = <<9999, 9999, 5999>> -> 3912617                 \* 60 * 10^10 - 1
      [] x = <<0, 0, 6000>> -> 3912617                       \* 60 * 10^10
      [] x = <<9999, 9999, 9999, 35>> -> 4503306             \* 3600 * 10^10 - 1
      [] x = <<0, 0, 0, 36>> -> 4503306                      \* 3600 * 10^10
      [] x = <<9999, 9999, 9999, 863>> -> 4961802            \* 86400 * 10^10 - 1
      [] x = <<0, 0, 0, 864>> -> 4961802                     \* 86400 * 10^10
      [] x = <<9999, 9999, 9999, 5359, 31>> -> 5812977       \* 31536000 * 10^10 - 1
      [] x = <<0, 0, 0, 5360, 31>> -> 5812977                \* 31536000 * 10^10
      [] x = <<9999, 9999, 9999, 5999, 3153>> -> 6477363     \* 3153600000 * 10^10 - 1
      [] x = <<0, 0, 0, 6000, 3153>> -> 6477363              \* 3153600000 * 10^10

\* The value of an entropy in units of 10^-5 bit.
EntropyValue(e) == math_log2(e.base) * e.exp

(***************************************************************************)
(* calculate_crack_time                                                    *)
(***************************************************************************)
\* 10000000000, as 10^5 * 10^5
guesses_per_second == BigMul(BigFromInt(10 ^ 5), BigFromInt(10 ^ 5))

\* The exponent from which a double overflows: 2 ** x raises OverflowError
\* for every float x >= 1024.
DoubleMaxExp == 1024

\* 2 ** entropy is out of the range of a float
Pow2Overflows(e) == EntropyValue(e) >= DoubleMaxExp * 10 ^ 5

\* seconds = guesses / guesses_per_second with guesses = 2 ** e, that is
\* e.base ^ e.exp: kept as the pair, and compared exactly.
Seconds(e, rate) == [guesses |-> e, per |-> rate]

\* seconds <= k
SecondsAtMost(seconds, k) ==
    LET bound == BigAdd(BigMul(k, seconds.per), <<1>>, 0)
    IN  BigLess(PowCapped(<<1>>, seconds.guesses.base, seconds.guesses.exp,
                          bound), bound)

\* seconds < k, for a natural k
SecondsLess(seconds, k) ==
    LET bound == BigMul(k, seconds.per)
    IN  BigLess(PowCapped(<<1>>, seconds.guesses.base, seconds.guesses.exp,
                          bound), bound)

\* What calculate_crack_time returns, the magnitude being seconds / div, or
\* the exception it raises.
Returned(seconds, d, u) ==
    [raised |-> "", seconds |-> seconds, div |-> d, unit |-> u]
Raised(exc) ==
    [raised |-> exc, seconds |-> Seconds(ZeroBits, <<1>>), div |-> <<1>>,
     unit |-> ""]

\* crack_units with <= for <
crack_units_inclusive(seconds) ==
    IF SecondsAtMost(seconds, BigFromInt(60))
    THEN Returned(seconds, <<1>>, "seconds")
    ELSE IF SecondsAtMost(seconds, BigFromInt(3600))
    THEN Returned(seconds, BigFromInt(60), "minutes")
    ELSE IF SecondsAtMost(seconds, BigFromInt(86400))
    THEN Returned(seconds, BigFromInt(3600), "hours")
    ELSE IF SecondsAtMost(seconds, BigFromInt(31536000))
    THEN Returned(seconds, BigFromInt(86400), "days")
    ELSE Returned(seconds, BigFromInt(31536000), "years")

\* the if/elif chain on seconds
crack_units(seconds) ==
    IF SecondsLess(seconds, BigFromInt(60))
    THEN Returned(seconds, <<1>>, "seconds")
    ELSE IF SecondsLess(seconds, BigFromInt(3600))
    THEN Returned(seconds, BigFromInt(60), "minutes")
    ELSE IF SecondsLess(seconds, BigFromInt(86400))
    THEN Returned(seconds, BigFromInt(3600), "hours")
    ELSE IF SecondsLess(seconds, BigFromInt(31536000))
    THEN Returned(seconds, BigFromInt(86400), "days")
    ELSE IF SecondsLess(seconds, BigMul(BigFromInt(31536000), BigFromInt(100)))
    THEN Returned(seconds, BigFromInt(31536000), "years")
    ELSE Returned(seconds, BigFromInt(31536000), "years")

calculate_crack_time(e) ==
    IF Pow2Overflows(e) THEN Raised("OverflowError")
    ELSE crack_units(Seconds(e, guesses_per_second))

\* Entropies that put seconds on a threshold of the chain, or just below it:
\* log2(T * 10^10) and log2(T * 10^10 - 1).
EntropySamples ==
    { Bits(b, 1) : b \in {
      <<9999, 9999, 5999>>,
      <<0, 0, 6000>>,
      <<9999, 9999, 9999, 35>>,
      <<0, 0, 0, 36>>,
      <<9999, 9999, 9999, 863>>,
      <<0, 0, 0, 864>>,
      <<9999, 9999, 9999, 5359, 31>>,
      <<0, 0, 0, 5360, 31>>,
      <<9999, 9999, 9999, 5999, 3153>>,
      <<0, 0, 0, 6000, 3153>> } }

(***************************************************************************)
(* analyze_character_distribution                                          *)
(***************************************************************************)
\* analyze_character_distribution with punctuation left out of the test
\* for 'other'
analyze_character_distribution_other(pw) ==
    [lowercase |-> CountIn(pw, ascii_lowercase),
     uppercase |-> CountIn(pw, ascii_uppercase),
     digits    |-> CountIn(pw, digits),
     special   |-> CountIn(pw, punctuation),
     other     |-> CountNotIn(pw, ascii_letters \cup digits)]

analyze_character_distribution(pw) ==
    [lowercase |-> CountIn(pw, ascii_lowercase),
     uppercase |-> CountIn(pw, ascii_uppercase),
     digits    |-> CountIn(pw, digits),
     special   |-> CountIn(pw, punctuation),
     other     |-> CountNotIn(pw, ascii_letters \cup digits \cup punctuation)]

(***************************************************************************)
(* find_patterns                                                           *)
(***************************************************************************)
\* the dict of the previous call, as if it were one module-level dict
patterns_init_shared ==
    IF IsSet(patterns) THEN Val(patterns)
    ELSE [sequential_chars |-> 0, repeated_chars |-> 0,
          keyboard_patterns |-> 0, common_words |-> 0]

\* the dict find_patterns starts from, built afresh by every call
patterns_init ==
    [sequential_chars |-> 0, repeated_chars |-> 0,
     keyboard_patterns |-> 0, common_words |-> 0]

\* for i in range(len(password) - 2): one increment for each i that passes
\* (i is 1-based here)
\* sequential_loop over range(len(password) - 3)
sequential_loop_short(pw) ==
    Cardinality({i \in 1 .. (Len(pw) - 3) :
                    pw[i] + 1 = pw[i + 1] /\ pw[i + 1] + 1 = pw[i + 2]})

sequential_loop(pw) ==
    Cardinality({i \in 1 .. (Len(pw) - 2) :
                    pw[i] + 1 = pw[i + 1] /\ pw[i + 1] + 1 = pw[i + 2]})

repeated_loop(pw) ==
    Cardinality({i \in 1 .. (Len(pw) - 2) :
                    pw[i] = pw[i + 1] /\ pw[i + 1] = pw[i + 2]})

keyboard_rows ==
    << <<113, 119, 101, 114, 116, 121, 117, 105, 111, 112>>,   \* qwertyuiop
       <<97, 115, 100, 102, 103, 104, 106, 107, 108>>,         \* asdfghjkl
       <<122, 120, 99, 118, 98, 110, 109>> >>                  \* zxcvbnm

\* for i in range(len(row) - 2): row[i:i+3].lower() in password.lower()
\* keyboard_row_loop without lower-casing the password
RECURSIVE keyboard_row_loop_cased(_, _, _)
keyboard_row_loop_cased(pw, row, i) ==
    IF i > Len(row) - 2 THEN 0
    ELSE (IF Contains(pw, Lower(SubSeq(row, i, i + 2))) THEN 1 ELSE 0)
         + keyboard_row_loop_cased(pw, row, i + 1)

RECURSIVE keyboard_row_loop(_, _, _)
keyboard_row_loop(pw, row, i) ==
    IF i > Len(row) - 2 THEN 0
    ELSE (IF Contains(Lower(pw), Lower(SubSeq(row, i, i + 2))) THEN 1 ELSE 0)
         + keyboard_row_loop(pw, row, i + 1)

\* for row in keyboard_rows
RECURSIVE keyboard_loop(_, _)
keyboard_loop(pw, r) ==
    IF r > Len(keyboard_rows) THEN 0
    ELSE keyboard_row_loop(pw, keyboard_rows[r], 1) + keyboard_loop(pw, r + 1)

common_words ==
    << <<112, 97, 115, 115, 119, 111, 114, 100>>,      \* password
       <<49, 50, 51, 52, 53, 54>>,                     \* 123456
       <<113, 119, 101, 114, 116, 121>>,               \* qwerty
       <<97, 100, 109, 105, 110>>,                     \* admin
       <<119, 101, 108, 99, 111, 109, 101>>,           \* welcome
       <<108, 111, 103, 105, 110>>,                    \* login
       <<97, 98, 99, 49, 50, 51>>,                     \* abc123
       <<108, 101, 116, 109, 101, 105, 110>>,          \* letmein
       <<109, 111, 110, 107, 101, 121>>,               \* monkey
       <<102, 111, 111, 116, 98, 97, 108, 108>> >>     \* football

\* for word in common_words: word in password.lower()
RECURSIVE common_words_loop(_, _)
common_words_loop(pw, w) ==
    IF w > Len(common_words) THEN 0
    ELSE (IF Contains(Lower(pw), common_words[w]) THEN 1 ELSE 0)
         + common_words_loop(pw, w + 1)

find_patterns(pw) ==
    LET p0 == patterns_init
    IN  [sequential_chars  |-> p0.sequential_chars + sequential_loop(pw),
         repeated_chars    |-> p0.repeated_chars + repeated_loop(pw),
         keyboard_patterns |-> p0.keyboard_patterns + keyboard_loop(pw, 1),
         common_words      |-> p0.common_words + common_words_loop(pw, 1)]

(***************************************************************************)
(* get_rate_color, get_rate_label                                          *)
(***************************************************************************)
get_rate_color(sc) ==
    CASE sc = 0 -> "#ff0000"
      [] sc = 1 -> "#ff4500"
      [] sc = 2 -> "#ffa500"
      [] sc = 3 -> "#9acd32"
      [] sc = 4 -> "#008000"
      [] OTHER  -> "#ff0000"

get_rate_label(sc) ==
    CASE sc = 0 -> "Very Weak"
      [] sc = 1 -> "Weak"
      [] sc = 2 -> "Medium"
      [] sc = 3 -> "Strong"
      [] sc = 4 -> "Very Strong"
      [] OTHER  -> "Very Weak"

(***************************************************************************)
(* get_suggestions                                                         *)
(***************************************************************************)
SuggestPrompt == "Enter a password to get suggestions"
SuggestLonger == "Make your password longer (aim for at least 12 characters)"
SuggestLower == "Add lowercase letters"
SuggestUpper == "Add uppercase letters"
SuggestDigits == "Add numbers"
SuggestSpecial == "Add special characters (e.g., @, #, $, %)"
SuggestSequential == "Avoid sequential characters (e.g., abc, 123)"
SuggestRepeated == "Avoid repeated characters (e.g., aaa, 111)"
SuggestKeyboard == "Avoid keyboard patterns (e.g., qwerty, asdf)"
SuggestCommon == "Avoid common words and patterns"
SuggestGood ==
    "Your password looks good! Remember to use different passwords for different accounts."

\* if cond: suggestions.append(text)
AppendIf(list, cond, text) == IF cond THEN Append(list, text) ELSE list

\* get_suggestions with the digits rule ahead of the uppercase rule
get_suggestions_swapped(pw, dist, pat) ==
    IF pw = <<>> THEN <<SuggestPrompt>>
    ELSE LET l0 == <<>>
             l1 == AppendIf(l0, Len(pw) < 12, SuggestLonger)
             l2 == AppendIf(l1, dist.lowercase = 0, SuggestLower)
             l3 == AppendIf(l2, dist.digits = 0, SuggestDigits)
             l4 == AppendIf(l3, dist.uppercase = 0, SuggestUpper)
             l5 == AppendIf(l4, dist.special = 0, SuggestSpecial)
             l6 == AppendIf(l5, pat.sequential_chars > 0, SuggestSequential)
             l7 == AppendIf(l6, pat.repeated_chars > 0, SuggestRepeated)
             l8 == AppendIf(l7, pat.keyboard_patterns > 0, SuggestKeyboard)
             l9 == AppendIf(l8, pat.common_words > 0, SuggestCommon)
         IN  IF Len(l9) = 0 THEN Append(l9, SuggestGood) ELSE l9

\* get_suggestions without the early return for the empty password
get_suggestions_no_prompt(pw, dist, pat) ==
    LET l0 == <<>>
        l1 == AppendIf(l0, Len(pw) < 12, SuggestLonger)
        l2 == AppendIf(l1, dist.lowercase = 0, SuggestLower)
        l3 == AppendIf(l2, dist.uppercase = 0, SuggestUpper)
        l4 == AppendIf(l3, dist.digits = 0, SuggestDigits)
        l5 == AppendIf(l4, dist.special = 0, SuggestSpecial)
        l6 == AppendIf(l5, pat.sequential_chars > 0, SuggestSequential)
        l7 == AppendIf(l6, pat.repeated_chars > 0, SuggestRepeated)
        l8 == AppendIf(l7, pat.keyboard_patterns > 0, SuggestKeyboard)
        l9 == AppendIf(l8, pat.common_words > 0, SuggestCommon)
    IN  IF Len(l9) = 0 THEN Append(l9, SuggestGood) ELSE l9

get_suggestions(pw, dist, pat) ==
    IF pw = <<>> THEN <<SuggestPrompt>>
    ELSE LET l0 == <<>>
             l1 == AppendIf(l0, Len(pw) < 12, SuggestLonger)
             l2 == AppendIf(l1, dist.lowercase = 0, SuggestLower)
             l3 == AppendIf(l2, dist.uppercase = 0, SuggestUpper)
             l4 == AppendIf(l3, dist.digits = 0, SuggestDigits)
             l5 == AppendIf(l4, dist.special = 0, SuggestSpecial)
             l6 == AppendIf(l5, pat.sequential_chars > 0, SuggestSequential)
             l7 == AppendIf(l6, pat.repeated_chars > 0, SuggestRepeated)
             l8 == AppendIf(l7, pat.keyboard_patterns > 0, SuggestKeyboard)
             l9 == AppendIf(l8, pat.common_words > 0, SuggestCommon)
         IN  IF Len(l9) = 0 THEN Append(l9, SuggestGood) ELSE l9

(***************************************************************************)
(* main: one run of the script on the text input's value pw, with z what   *)
(* zxcvbn.zxcvbn does on this call.  The value is every local of main, how *)
(* the run ended and the exception that ended it.                          *)
(***************************************************************************)
\* zxcvbn.zxcvbn(password): a dict with 'score' and 'feedback'/'warning', a
\* dict without one of them, or an exception.
LibWarnings == {"", "This is a top-10 common password."}
LibOutcomes ==
    [kind : {"ok"}, score : 0 .. 4, warning : LibWarnings]
    \cup [kind : {"raises", "no_score", "no_feedback"}, score : {0},
          warning : {""}]

NoLocals ==
    [score |-> Unset, entropy |-> Unset, char_distribution |-> Unset,
     patterns |-> Unset, crack_time |-> Unset, color |-> Unset,
     label |-> Unset, warning |-> Unset, suggestions |-> Unset,
     status |-> "blank", raised |-> ""]

main(pw, z) ==
    IF pw = <<>> THEN NoLocals
    ELSE IF z.kind = "raises"
    THEN [NoLocals EXCEPT !.status = "error", !.raised = "LibraryError"]
    ELSE IF z.kind = "no_score"
    THEN [NoLocals EXCEPT !.status = "error", !.raised = "KeyError"]
    ELSE
    LET e == analyze_entropy(pw)
        d == analyze_character_distribution(pw)
        p == find_patterns(pw)
        ct == calculate_crack_time(e)
        analysed == [NoLocals EXCEPT !.score = Some(z.score),
                                     !.entropy = Some(e),
                                     !.char_distribution = Some(d),
                                     !.patterns = Some(p)]
        labelled == [analysed EXCEPT !.crack_time = Some(ct),
                                     !.color = Some(get_rate_color(z.score)),
                                     !.label = Some(get_rate_label(z.score))]
    IN  IF ct.raised # ""
        THEN [analysed EXCEPT !.status = "error", !.raised = ct.raised]
        ELSE IF z.kind = "no_feedback"
        THEN [labelled EXCEPT !.status = "error", !.raised = "KeyError"]
        ELSE [labelled EXCEPT !.warning = Some(z.warning),
                              !.suggestions = Some(get_suggestions(pw, d, p)),
                              !.status = "rendered"]

\* zxcvbn.zxcvbn is not called when the text input is empty.
NoCall == [kind |-> "ok", score |-> 0, warning |-> ""]

\* The script reruns with the text input holding pw.
Rerun(pw, z) ==
    \E m \in {main(pw, z)} :
        /\ password' = pw
        /\ result' = IF pw = <<>> THEN Unset ELSE Some(z)
        /\ score' = m.score
        /\ entropy' = m.entropy
        /\ char_distribution' = m.char_distribution
        /\ patterns' = m.patterns
        /\ crack_time' = m.crack_time
        /\ color' = m.color
        /\ label' = m.label
        /\ warning' = m.warning
        /\ suggestions' = m.suggestions
        /\ status' = m.status
        /\ raised' = m.raised
        /\ given' = {}
        /\ first_eval' =
               IF IsSet(first_eval) \/ m.status # "rendered" THEN first_eval
               ELSE Some([password |-> pw, score |-> m.score,
                          entropy |-> m.entropy,
                          char_distribution |-> m.char_distribution,
                          patterns |-> m.patterns,
                          crack_time |-> m.crack_time, color |-> m.color,
                          label |-> m.label, suggestions |-> m.suggestions])

(***************************************************************************)
(* The session: the user edits the text input or ticks the checkbox, and   *)
(* every such event reruns the script.                                     *)
(***************************************************************************)
MaxTyped == 3
TypedChars == {97}                                      \* a
\* a text long enough for 2 ** entropy to overflow: 218 times a
LongRun == 218
PasteWords == { [i \in 1 .. LongRun |-> 97] }

Init ==
    /\ password = <<>>
    /\ password_visible = FALSE
    /\ score = Unset /\ entropy = Unset /\ char_distribution = Unset
    /\ patterns = Unset /\ crack_time = Unset /\ color = Unset
    /\ label = Unset /\ warning = Unset /\ suggestions = Unset
    /\ status = "idle"
    /\ raised = ""
    /\ result = Unset
    /\ given = {}
    /\ first_eval = Unset

\* one more character typed
TypeChar ==
    /\ Len(password) < MaxTyped
    /\ \E c \in TypedChars, z \in LibOutcomes : Rerun(Append(password, c), z)
    /\ UNCHANGED password_visible

\* the last character deleted; editing is bounded to texts of at most
\* MaxTyped characters, a longer text can only be cleared
Backspace ==
    /\ password # <<>> /\ Len(password) <= MaxTyped
    /\ \E z \in LibOutcomes : Rerun(SubSeq(password, 1, Len(password) - 1), z)
    /\ UNCHANGED password_visible

\* the session starts with a text pasted into the field
PasteWord ==
    /\ status = "idle"
    /\ \E w \in PasteWords, z \in LibOutcomes : Rerun(w, z)
    /\ UNCHANGED password_visible

\* the field emptied
ClearInput ==
    /\ password # <<>>
    /\ Rerun(<<>>, NoCall)
    /\ UNCHANGED password_visible

\* The checkbox swaps the text input for the one under the other key, which
\* starts empty.
ToggleVisibility ==
    /\ password_visible' = ~password_visible
    /\ Rerun(<<>>, NoCall)

Next == TypeChar \/ Backspace \/ PasteWord \/ ClearInput \/ ToggleVisibility

Spec == Init /\ [][Next]_vars

(***************************************************************************)
(* The analysis functions on their own: the arguments are drawn from       *)
(* bounded sets and each function is applied to them once.                 *)
(***************************************************************************)
MaxLen == 3
MaxPrefix == 1
Alphabet == {97, 98, 99, 65, 49, 33, 233}               \* a b c A 1 ! e-acute

\* every string over Alphabet of length at most n
RECURSIVE Strings(_)
Strings(n) ==
    IF n = 0 THEN {<<>>}
    ELSE LET shorter == Strings(n - 1)
         IN  shorter \cup {Append(w, c) : w \in shorter, c \in Alphabet}

Words ==
    { <<113, 119, 101>>,                                          \* qwe
      <<81, 87, 69>>,                                             \* QWE
      <<113, 119, 101, 114, 116, 121, 117, 105, 111, 112>>,       \* qwertyuiop
      <<112, 97, 115, 115, 119, 111, 114, 100>>,                  \* password
      <<80, 65, 83, 83, 87, 79, 82, 68>>,                         \* PASSWORD
      <<109, 121, 112, 97, 115, 115, 119, 111, 114, 100, 49>>,    \* mypassword1
      <<49, 50, 51, 52, 53, 54>>,                                 \* 123456
      <<97, 98, 99, 100>>,                                        \* abcd
      <<99, 98, 97>>,                                             \* cba
      <<97, 97, 97, 97>>,                                         \* aaaa
      <<88, 107, 55, 35, 109, 80, 50, 36, 118, 76, 57>>,          \* Xk7#mP2$vL9
      <<88, 107, 55, 35, 109, 80, 50, 36, 118, 76, 57, 64>>,      \* Xk7#mP2$vL9@
      <<88, 107, 55, 35, 109, 80, 50, 36, 118, 76, 57, 64, 119, 82, 52, 33>> }
                                                            \* Xk7#mP2$vL9@wR4!

\* block repeated up to n characters
RepeatTo(block, n) == [i \in 1 .. n |-> block[((i - 1) % Len(block)) + 1]]

\* Passwords on either side of the length from which 2 ** entropy overflows:
\* lowercase only, all four classes, no class at all.
LongPasswords ==
    { RepeatTo(<<97>>, 217), RepeatTo(<<97>>, 218),
      RepeatTo(<<97, 65, 49, 33>>, 156), RepeatTo(<<97, 65, 49, 33>>, 157),
      RepeatTo(<<233>>, 308), RepeatTo(<<233>>, 309) }

Passwords ==
    Strings(MaxLen)
    \cup {pre \o w : pre \in Strings(MaxPrefix), w \in Words}
    \cup LongPasswords

\* Arguments of get_suggestions that need not come from one password.
SuggestionPasswords ==
    { <<>>, <<97>>,
      <<88, 107, 55, 35, 109, 80, 50, 36, 118, 76, 57>>,          \* 11 long
      <<88, 107, 55, 35, 109, 80, 50, 36, 118, 76, 57, 64>> }     \* 12 long
ArgDistributions ==
    [lowercase : {0, 2}, uppercase : {0, 2}, digits : {0, 2},
     special : {0, 2}, other : {0}]
ArgPatterns ==
    [sequential_chars : {0, 1}, repeated_chars : {0, 1},
     keyboard_patterns : {0, 1}, common_words : {0, 1}]

InitFn ==
    /\ password_visible = FALSE
    /\ score = Unset /\ crack_time = Unset /\ color = Unset
    /\ label = Unset /\ warning = Unset /\ suggestions = Unset
    /\ status = "idle"
    /\ raised = ""
    /\ result = Unset
    /\ first_eval = Unset
    /\ \/ /\ password \in Passwords
          /\ entropy = Unset /\ char_distribution = Unset /\ patterns = Unset
          /\ given = {}
       \/ /\ password \in SuggestionPasswords
          /\ entropy = Unset
          /\ char_distribution \in {Some(d) : d \in ArgDistributions}
          /\ patterns \in {Some(p) : p \in ArgPatterns}
          /\ given = {"char_distribution", "patterns"}
       \/ /\ password = <<>>
          /\ entropy \in {Some(e) : e \in EntropySamples}
          /\ char_distribution = Unset /\ patterns = Unset
          /\ given = {"entropy"}

CallAnalyzeEntropy ==
    /\ ~IsSet(entropy)
    /\ entropy' = Some(analyze_entropy(password))
    /\ UNCHANGED <<password, password_visible, score, char_distribution,
                   patterns, crack_time, color, label, warning, suggestions,
                   status, raised, result, given, first_eval>>

CallAnalyzeCharacterDistribution ==
    /\ ~IsSet(char_distribution)
    /\ char_distribution' = Some(analyze_character_distribution(password))
    /\ UNCHANGED <<password, password_visible, score, entropy, patterns,
                   crack_time, color, label, warning, suggestions, status,
                   raised, result, given, first_eval>>

CallFindPatterns ==
    /\ ~IsSet(patterns)
    /\ patterns' = Some(find_patterns(password))
    /\ UNCHANGED <<password, password_visible, score, entropy,
                   char_distribution, crack_time, color, label, warning,
                   suggestions, status, raised, result, given, first_eval>>

CallCalculateCrackTime ==
    /\ IsSet(entropy) /\ ~IsSet(crack_time)
    /\ \E ct \in {calculate_crack_time(Val(entropy))} :
           /\ crack_time' = Some(ct)
           /\ raised' = ct.raised
    /\ UNCHANGED <<password, password_visible, score, entropy,
                   char_distribution, patterns, color, label, warning,
                   suggestions, status, result, given, first_eval>>

CallGetSuggestions ==
    /\ IsSet(char_distribution) /\ IsSet(patterns) /\ ~IsSet(suggestions)
    /\ suggestions' = Some(get_suggestions(password, Val(char_distribution),
                                           Val(patterns)))
    /\ UNCHANGED <<password, password_visible, score, entropy,
                   char_distribution, patterns, crack_time, color, label,
                   warning, status, raised, result, given, first_eval>>

NextFn ==
    \/ CallAnalyzeEntropy
    \/ CallAnalyzeCharacterDistribution
    \/ CallFindPatterns
    \/ CallCalculateCrackTime
    \/ CallGetSuggestions

SpecFn == InitFn /\ [][NextFn]_vars

(***************************************************************************)
(* The claims.                                                             *)
(***************************************************************************)
Computed(name) == name \notin given

ClassNames == {"lowercase", "uppercase", "digits", "special"}
ClassSet(k) ==
    CASE k = "lowercase" -> ascii_lowercase
      [] k = "uppercase" -> ascii_uppercase
      [] k = "digits" -> digits
      [] k = "special" -> punctuation

\* C1: analyze_character_distribution counts every character of the
\* password in exactly one of the five classes, so the five counts add up to
\* the length of the password.
C1_DistributionSumsToLength ==
    (IsSet(char_distribution) /\ Computed("char_distribution")) =>
        LET d == Val(char_distribution)
        IN  /\ d.lowercase + d.uppercase + d.digits + d.special + d.other
                   = Len(password)
            /\ \A k \in ClassNames :
                   d[k] = Cardinality({i \in 1 .. Len(password) :
                                          password[i] \in ClassSet(k)})
            /\ d.other
                   = Cardinality({i \in 1 .. Len(password) :
                                     \A k \in ClassNames :
                                         password[i] \notin ClassSet(k)})
            /\ \A i \in 1 .. Len(password) :
                   Cardinality({k \in ClassNames :
                                   password[i] \in ClassSet(k)}) <= 1

\* A password with characters of all five classes has been counted.
C1_Witness ==
    /\ IsSet(char_distribution) /\ Computed("char_distribution")
    /\ \A k \in {"lowercase", "uppercase", "digits", "special", "other"} :
           Val(char_distribution)[k] > 0

\* C2: no analysis function raises, whatever the password: in particular
\* the 2 ** entropy of calculate_crack_time never ends in an error.
C2_AnalysisNeverRaises == raised = ""

\* C3: when the library call fails or returns a dict without 'score' or
\* 'feedback', the run of main goes on as with score 0 and no warning and
\* still renders the metrics and the suggestions.
C3_LibraryFailureDegrades ==
    (IsSet(result) /\ Val(result).kind # "ok") =>
        /\ status = "rendered"
        /\ score = Some(0)
        /\ warning = Some("")
        /\ IsSet(entropy) /\ IsSet(char_distribution) /\ IsSet(patterns)
        /\ IsSet(suggestions)

\* 10^10 guesses per second, as limbs
TenBillion == <<0, 0, 100>>

\* s < k for s = 2^entropy / 10^10
C4_Below(k) == SecondsLess(Seconds(Val(entropy), TenBillion), BigFromInt(k))

C5_Fires(i) ==
    LET d == Val(char_distribution)
        p == Val(patterns)
    IN  CASE i = 1 -> Len(password) < 12
          [] i = 2 -> d.lowercase = 0
          [] i = 3 -> d.uppercase = 0
          [] i = 4 -> d.digits = 0
          [] i = 5 -> d.special = 0
          [] i = 6 -> p.sequential_chars > 0
          [] i = 7 -> p.repeated_chars > 0
          [] i = 8 -> p.keyboard_patterns > 0
          [] i = 9 -> p.common_words > 0

C5_Text ==
    << SuggestLonger, SuggestLower, SuggestUpper, SuggestDigits,
       SuggestSpecial, SuggestSequential, SuggestRepeated, SuggestKeyboard,
       SuggestCommon >>

\* C5: for a non-empty password get_suggestions returns the strings of
\* exactly the rules that fire, each once and in rule order; the
\* "looks good" string alone if and only if no rule fires; never an empty
\* list.
C5_SuggestionsFollowRules ==
    (IsSet(suggestions) /\ password # <<>>) =>
        LET sg == Val(suggestions)
            fired == {i \in 1 .. 9 : C5_Fires(i)}
            at(i) == {k \in 1 .. Len(sg) : sg[k] = C5_Text[i]}
        IN  /\ Len(sg) >= 1
            /\ (sg = <<SuggestGood>>) <=> (fired = {})
            /\ fired # {} =>
                   /\ Len(sg) = Cardinality(fired)
                   /\ \A i \in 1 .. 9 :
                          Cardinality(at(i)) = IF i \in fired THEN 1 ELSE 0
                   /\ \A i, j \in fired :
                          i < j => \A k \in at(i), l \in at(j) : k < l
                   /\ \A k \in 1 .. Len(sg) : sg[k] # SuggestGood

\* The 16-character password with all four classes and no pattern looks
\* good.
C5_Witness ==
    /\ Len(password) = 16
    /\ given = {}
    /\ suggestions = Some(<<SuggestGood>>)

\* C6: for the empty password get_suggestions returns the prompt alone,
\* whatever the distribution and pattern maps.
C6_EmptyPasswordPrompt ==
    (IsSet(suggestions) /\ password = <<>>) =>
        Val(suggestions) = <<SuggestPrompt>>

\* The prompt returned although the maps handed in report patterns and
\* missing classes.
C6_Witness ==
    /\ password = <<>>
    /\ IsSet(suggestions)
    /\ ~Computed("patterns")
    /\ Val(patterns).common_words > 0
    /\ Val(char_distribution).digits = 0

\* the classes present in a string
C7_Classes(s) ==
    {k \in ClassNames : \E i \in 1 .. Len(s) : s[i] \in ClassSet(k)}

C7_Size(k) ==
    CASE k = "lowercase" -> 26 [] k = "uppercase" -> 26
      [] k = "digits" -> 10 [] k = "special" -> 32

RECURSIVE C7_Sum(_)
C7_Sum(ks) ==
    IF ks = {} THEN 0
    ELSE LET k == CHOOSE x \in ks : TRUE IN C7_Size(k) + C7_Sum(ks \ {k})

\* passwords to compare the password with
C7_Others ==
    {SubSeq(password, 1, n) :
        n \in {m \in {0, Len(password) \div 2, Len(password) - 1} : m >= 0}}
    \cup {password \o password}
    \cup {<<c>> : c \in Alphabet}
    \cup {<<c, c>> : c \in Alphabet}

\* C7: the entropy is 0 for the empty password and log2(A) * len(p)
\* otherwise, A the sum of the sizes of the classes present or 10 when none
\* is; so among passwords with the same classes a longer one never has less
\* entropy, and every non-empty password has entropy above 0.
C7_EntropyFormula ==
    (IsSet(entropy) /\ Computed("entropy")) =>
        LET e == Val(entropy)
            a == C7_Sum(C7_Classes(password))
        IN  /\ password = <<>> => EntropyValue(e) = 0
            /\ password # <<>> =>
                   /\ e = Bits(<<IF a = 0 THEN 10 ELSE a>>, Len(password))
                   /\ EntropyValue(e) > 0
            /\ \A q \in C7_Others :
                   C7_Classes(q) = C7_Classes(password) =>
                       /\ Len(q) <= Len(password) =>
                              EntropyValue(analyze_entropy(q))
                                  <= EntropyValue(e)
                       /\ Len(q) >= Len(password) =>
                              EntropyValue(analyze_entropy(q))
                                  >= EntropyValue(e)

\* A password with no character of the four classes: the fallback size 10.
C7_Witness ==
    /\ password = <<233, 233>>
    /\ entropy = Some(Bits(<<10>>, 2))
    /\ Computed("entropy")

\* the 20 slices of length 3 of the three keyboard rows
C8_Slices ==
    { <<113, 119, 101>>, <<119, 101, 114>>, <<101, 114, 116>>,
      <<114, 116, 121>>, <<116, 121, 117>>, <<121, 117, 105>>,
      <<117, 105, 111>>, <<105, 111, 112>>,
      <<97, 115, 100>>, <<115, 100, 102>>, <<100, 102, 103>>,
      <<102, 103, 104>>, <<103, 104, 106>>, <<104, 106, 107>>,
      <<106, 107, 108>>,
      <<122, 120, 99>>, <<120, 99, 118>>, <<99, 118, 98>>,
      <<118, 98, 110>>, <<98, 110, 109>> }

\* slice t occurs in the lower-cased password
C8_Occurs(t) ==
    \E k \in 1 .. (Len(password) - 2) :
        \A j \in 0 .. 2 : LowerChar(password[k + j]) = t[j + 1]

\* C8: keyboard_patterns is the number of the 20 row slices that occur in
\* the lower-cased password, each counted once; it is within 0..20, and 0
\* for a password shorter than 3.
C8_KeyboardPatternCount ==
    (IsSet(patterns) /\ Computed("patterns")) =>
        LET n == Val(patterns).keyboard_patterns
        IN  /\ n = Cardinality({t \in C8_Slices : C8_Occurs(t)})
            /\ n \in 0 .. 20
            /\ Len(password) < 3 => n = 0

\* QWE, in upper case, is counted once.
C8_Witness ==
    /\ password = <<81, 87, 69>>
    /\ Computed("patterns")
    /\ IsSet(patterns)
    /\ Val(patterns).keyboard_patterns = 1

C9_Sequential(i) ==
    password[i] + 1 = password[i + 1] /\ password[i + 1] + 1 = password[i + 2]
C9_Repeated(i) ==
    password[i] = password[i + 1] /\ password[i + 1] = password[i + 2]

\* C9: sequential_chars is the number of windows of three ascending
\* consecutive code points and repeated_chars the number of windows of
\* three equal characters, every overlapping window counted; both are 0
\* below length 3 and no window counts for both.
C9_SlidingWindowCounts ==
    (IsSet(patterns) /\ Computed("patterns")) =>
        LET windows == 1 .. (Len(password) - 2)
            p == Val(patterns)
        IN  /\ p.sequential_chars
                   = Cardinality({i \in windows : C9_Sequential(i)})
            /\ p.repeated_chars
                   = Cardinality({i \in windows : C9_Repeated(i)})
            /\ Len(password) < 3 =>
                   p.sequential_chars = 0 /\ p.repeated_chars = 0
            /\ \A i \in windows : ~(C9_Sequential(i) /\ C9_Repeated(i))

\* abcd holds two overlapping ascending windows.
C9_Witness ==
    /\ password = <<97, 98, 99, 100>>
    /\ Computed("patterns")
    /\ IsSet(patterns)
    /\ Val(patterns).sequential_chars = 2
    /\ Val(patterns).repeated_chars = 0

====
